---- MODULE Spec2Model ----
(***************************************************************************)
(* The dependency risk scorer of project-load-analyzer, and the tool that  *)
(* calls it, projectHeavinessAnalyzer (modelled further down).             *)
(*                                                                         *)
(* analyzeDependencies.execute (src/README.md:434-502) takes the text of a *)
(* package.json, deserializes it, merges dependencies and devDependencies, *)
(* looks every merged key up in heavyPackagesList, sums weights, classifies*)
(* a risk level and derives five capability flags.  Any exception inside   *)
(* the try block yields the zero/default report.                           *)
(*                                                                         *)
(* The manifest text is modelled as its sequence of lexical tokens; the    *)
(* deserializer is a recursive-descent parser of the JSON grammar over     *)
(* those tokens.  Numbers are ECMAScript numbers as far as the scorer can  *)
(* produce them: an integer, NaN, or the value undefined.                  *)
(***************************************************************************)
EXTENDS Integers, Sequences, FiniteSets, TLC

VARIABLES packageJson, declared, pc, result,
          context, phaPc, paths, fileRes, dependencyAnalysis, repoSize,
          calls, reportPrompt, output

\* the state of projectHeavinessAnalyzer.execute
phaVars == <<context, phaPc, paths, fileRes, dependencyAnalysis, repoSize,
             calls, reportPrompt, output>>

vars == <<packageJson, declared, pc, result, phaVars>>

(***************************************************************************)
(* Bounds of the model.                                                    *)
(***************************************************************************)
\* entries (dependencies plus devDependencies) declared by a well-formed manifest
MaxEntries == 4
\* entries declared by a manifest that may declare a name more than once
MaxRepeatEntries == 3
\* entries declared by the manifests whose text is truncated or corrupted
MaxCorruptEntries == 1

(***************************************************************************)
(* ECMAScript values.                                                      *)
(***************************************************************************)
Undefined == [t |-> "undefined"]
JNull == [t |-> "null"]
NaN == [t |-> "nan"]
Num(n) == [t |-> "num", n |-> n]
JBool(b) == [t |-> "bool", b |-> b]
JStr(s) == [t |-> "str", s |-> s]
JArr(items) == [t |-> "arr", items |-> items]
\* an object is its own properties, <<key, value>>, in creation order
JObj(props) == [t |-> "obj", props |-> props]
\* the i-th character of the string s, as a one-character string value
JChar(s, i) == [t |-> "char", of |-> s, at |-> i]

IsNum(v) == v.t = "num"

\* canonical array-index property names ("0", "1", ...), and the number a
\* canonical decimal numeral denotes
IndexName(i) == ToString(i)
IndexNames == {IndexName(i) : i \in 0..9}
IndexOf(k) == CHOOSE i \in 0..9 : IndexName(i) = k

KeysOf(props) == [i \in 1..Len(props) |-> props[i][1]]
Range(s) == {s[i] : i \in 1..Len(s)}

\* DefineProperty that adds the key again instead of replacing it (a merge
\* that concatenates the two key lists)
DefinePropertyAppends(props, key, val) == Append(props, <<key, val>>)

\* CreateDataProperty: an existing key keeps its place and takes the new
\* value, a new key is added last.
DefineProperty(props, key, val) ==
    IF \E i \in 1..Len(props) : props[i][1] = key
    THEN [i \in 1..Len(props) |->
             IF props[i][1] = key THEN <<key, val>> ELSE props[i]]
    ELSE Append(props, <<key, val>>)

\* OrdinaryOwnPropertyKeys: array indices in ascending numeric order, then
\* the other string keys in creation order.
RECURSIVE SortedIndexProps(_, _)
SortedIndexProps(props, i) ==
    IF i > 9 THEN <<>>
    ELSE SelectSeq(props, LAMBDA p : p[1] = IndexName(i))
             \o SortedIndexProps(props, i + 1)

OwnProps(props) ==
    SortedIndexProps(props, 0)
        \o SelectSeq(props, LAMBDA p : p[1] \notin IndexNames)

\* the own enumerable properties an object spread copies from a value
SpreadSource(v) ==
    CASE v.t = "obj" -> OwnProps(v.props)
      [] v.t = "arr" -> [i \in 1..Len(v.items) |-> <<IndexName(i - 1), v.items[i]>>]
      [] v.t = "str" -> [i \in 1..Len(v.s) |-> <<IndexName(i - 1), JChar(v.s, i - 1)>>]
      [] OTHER -> <<>>

RECURSIVE CopyDataProperties(_, _, _)
CopyDataProperties(target, source, i) ==
    IF i > Len(source) THEN target
    ELSE CopyDataProperties(
             DefineProperty(target, source[i][1], source[i][2]), source, i + 1)

\* Object.keys
ObjectKeys(props) == KeysOf(OwnProps(props))

(***************************************************************************)
(* The manifest text: JSON tokens.                                         *)
(***************************************************************************)
Tok(k, v) == [k |-> k, v |-> v]
LBrace == Tok("punct", "{")
RBrace == Tok("punct", "}")
LBrack == Tok("punct", "[")
RBrack == Tok("punct", "]")
Colon == Tok("punct", ":")
Comma == Tok("punct", ",")
StrTok(s) == Tok("str", s)
NullTok == Tok("null", "null")
TrueTok == Tok("true", "true")
FalseTok == Tok("false", "false")
\* a number literal, written as the decimal digits of a small natural
NumTok(n) == Tok("num", IndexName(n))
\* a lexeme that is no JSON token (a bare word such as  not  in "{not json")
BadTok == Tok("bad", "not")

(***************************************************************************)
(* JSON.parse over the token text.  A parse step yields                    *)
(* [ok, val, pos]: the value read and the position after it.               *)
(***************************************************************************)
ParseFail == [ok |-> FALSE, val |-> Undefined, pos |-> 0]
ParseOk(v, p) == [ok |-> TRUE, val |-> v, pos |-> p]

RECURSIVE ParseValue(_, _), ParseElements(_, _, _), ParseMembers(_, _, _)

ParseValue(toks, i) ==
    IF i > Len(toks) THEN ParseFail
    ELSE LET tk == toks[i] IN
         CASE tk.k = "null" -> ParseOk(JNull, i + 1)
           [] tk.k = "true" -> ParseOk(JBool(TRUE), i + 1)
           [] tk.k = "false" -> ParseOk(JBool(FALSE), i + 1)
           [] tk.k = "num" -> ParseOk(Num(IndexOf(tk.v)), i + 1)
           [] tk.k = "str" -> ParseOk(JStr(tk.v), i + 1)
           [] tk = LBrack ->
                IF i + 1 <= Len(toks) /\ toks[i + 1] = RBrack
                THEN ParseOk(JArr(<<>>), i + 2)
                ELSE ParseElements(toks, i + 1, <<>>)
           [] tk = LBrace ->
                IF i + 1 <= Len(toks) /\ toks[i + 1] = RBrace
                THEN ParseOk(JObj(<<>>), i + 2)
                ELSE ParseMembers(toks, i + 1, <<>>)
           [] OTHER -> ParseFail

ParseElements(toks, i, acc) ==
    LET r == ParseValue(toks, i) IN
    IF ~r.ok \/ r.pos > Len(toks) THEN ParseFail
    ELSE IF toks[r.pos] = Comma
         THEN ParseElements(toks, r.pos + 1, Append(acc, r.val))
    ELSE IF toks[r.pos] = RBrack
         THEN ParseOk(JArr(Append(acc, r.val)), r.pos + 1)
    ELSE ParseFail

ParseMembers(toks, i, acc) ==
    IF i + 1 > Len(toks) \/ toks[i].k # "str" \/ toks[i + 1] # Colon
    THEN ParseFail
    ELSE LET r == ParseValue(toks, i + 2) IN
         IF ~r.ok \/ r.pos > Len(toks) THEN ParseFail
         ELSE IF toks[r.pos] = Comma
              THEN ParseMembers(toks, r.pos + 1,
                                DefineProperty(acc, toks[i].v, r.val))
         ELSE IF toks[r.pos] = RBrace
              THEN ParseOk(JObj(DefineProperty(acc, toks[i].v, r.val)), r.pos + 1)
         ELSE ParseFail

\* JSON.parse(text): [threw |-> TRUE] on a SyntaxError, else the value
JSONParse(text) ==
    LET r == ParseValue(text, 1) IN
    IF r.ok /\ r.pos = Len(text) + 1
    THEN [threw |-> FALSE, value |-> r.val]
    ELSE [threw |-> TRUE, value |-> Undefined]

(***************************************************************************)
(* The catalog (src/README.md:360-412).                                    *)
(***************************************************************************)
Entry(w, c) == [weight |-> w, category |-> c]

heavyPackagesList ==
    ("tensorflow" :> Entry(10, "AI/ML")) @@
    ("@tensorflow/tfjs" :> Entry(8, "AI/ML")) @@
    ("torch" :> Entry(10, "AI/ML")) @@
    ("opencv" :> Entry(9, "Computer Vision")) @@
    ("mediapipe" :> Entry(8, "Computer Vision")) @@
    ("puppeteer" :> Entry(8, "Browser Automation")) @@
    ("playwright" :> Entry(8, "Browser Automation")) @@
    ("selenium-webdriver" :> Entry(7, "Browser Automation")) @@
    ("sharp" :> Entry(7, "Image Processing")) @@
    ("jimp" :> Entry(5, "Image Processing")) @@
    ("canvas" :> Entry(6, "Image Processing")) @@
    ("ffmpeg" :> Entry(9, "Video Processing")) @@
    ("node-ffmpeg" :> Entry(9, "Video Processing")) @@
    ("mysql2" :> Entry(4, "Database")) @@
    ("pg" :> Entry(4, "Database")) @@
    ("mongodb" :> Entry(5, "Database")) @@
    ("redis" :> Entry(4, "Database")) @@
    ("elasticsearch" :> Entry(6, "Database")) @@
    ("webpack" :> Entry(5, "Build Tools")) @@
    ("vite" :> Entry(4, "Build Tools")) @@
    ("rollup" :> Entry(4, "Build Tools")) @@
    ("parcel" :> Entry(4, "Build Tools")) @@
    ("next" :> Entry(5, "Framework")) @@
    ("nuxt" :> Entry(5, "Framework")) @@
    ("electron" :> Entry(7, "Desktop")) @@
    ("bcrypt" :> Entry(4, "Crypto")) @@
    ("crypto" :> Entry(3, "Crypto")) @@
    ("argon2" :> Entry(4, "Crypto")) @@
    ("pdf-parse" :> Entry(4, "File Processing")) @@
    ("xlsx" :> Entry(4, "File Processing")) @@
    ("archiver" :> Entry(3, "File Processing")) @@
    ("jest" :> Entry(3, "Testing")) @@
    ("cypress" :> Entry(6, "Testing")) @@
    ("@storybook/react" :> Entry(5, "Testing"))

\* heavyPackagesList and categories are object literals: a property read
\* that finds no own property goes on to Object.prototype, whose members
\* are functions (or, for __proto__, the prototype object itself).
ObjectPrototypeKeys ==
    {"constructor", "__proto__", "hasOwnProperty", "isPrototypeOf",
     "propertyIsEnumerable", "toLocaleString", "toString", "valueOf",
     "__defineGetter__", "__defineSetter__", "__lookupGetter__",
     "__lookupSetter__"}

\* heavyPackagesList[pkgName]
LookupPackage(pkgName) ==
    IF pkgName \in DOMAIN heavyPackagesList
    THEN [t |-> "entry",
          weight |-> Num(heavyPackagesList[pkgName].weight),
          category |-> heavyPackagesList[pkgName].category]
    ELSE IF pkgName \in ObjectPrototypeKeys THEN [t |-> "inherited"]
    ELSE Undefined

\* ToBoolean
Truthy(v) ==
    CASE v.t = "undefined" -> FALSE
      [] v.t = "nan" -> FALSE
      [] v.t = "num" -> v.n # 0
      [] OTHER -> TRUE

\* const { weight, category } = heavyPackagesList[pkgName]
WeightOf(e) == IF e.t = "entry" THEN e.weight ELSE Undefined
\* the property key the category is used as ("undefined" for undefined)
CategoryKeyOf(e) == IF e.t = "entry" THEN e.category ELSE "undefined"

\* a + b on numbers; an undefined or NaN operand gives NaN
JSAdd(a, b) == IF a.t = "num" /\ b.t = "num" THEN Num(a.n + b.n) ELSE NaN
\* a <= n; false when a is NaN
JSLessEq(a, n) == a.t = "num" /\ a.n <= n
\* v || 0
OrZero(v) == IF Truthy(v) THEN v ELSE Num(0)

\* categories[category]
GetCategory(categories, key) ==
    IF key \in DOMAIN categories THEN categories[key]
    ELSE IF key \in ObjectPrototypeKeys THEN [t |-> "inherited"]
    ELSE Undefined

\* categories[category] = value
SetCategory(categories, key, value) ==
    [k \in DOMAIN categories \cup {key} |->
        IF k = key THEN value ELSE categories[k]]

\* one call of the forEach callback
ScanKey(acc, pkgName) ==
    LET e == LookupPackage(pkgName) IN
    IF Truthy(e)
    THEN [heavyPackages |-> Append(acc.heavyPackages, pkgName),
          totalWeight |-> JSAdd(acc.totalWeight, WeightOf(e)),
          categories |->
              SetCategory(acc.categories, CategoryKeyOf(e),
                  JSAdd(OrZero(GetCategory(acc.categories, CategoryKeyOf(e))),
                        WeightOf(e)))]
    ELSE acc

\* Object.keys(allDeps || {}).forEach(...)
RECURSIVE ScanFrom(_, _, _)
ScanFrom(acc, keys, i) ==
    IF i > Len(keys) THEN acc
    ELSE ScanFrom(ScanKey(acc, keys[i]), keys, i + 1)

Scan(keys) ==
    ScanFrom([heavyPackages |-> <<>>, totalWeight |-> Num(0),
              categories |-> <<>>], keys, 1)

\* the if / else-if chain on totalWeight
RiskLevel(totalWeight) ==
    IF JSLessEq(totalWeight, 5) THEN "LOW"
    ELSE IF JSLessEq(totalWeight, 15) THEN "MEDIUM"
    ELSE IF JSLessEq(totalWeight, 30) THEN "HIGH"
    ELSE "CRITICAL"

BrowserAutomationNames == {"puppeteer", "playwright", "selenium-webdriver"}
\* the hasAI list with only the packages README.md names under AI/ML
AINamesNarrow == {"tensorflow", "opencv", "mediapipe"}

AINames == {"tensorflow", "@tensorflow/tfjs", "torch", "opencv", "mediapipe"}
ImageProcessingNames == {"sharp", "jimp", "canvas"}
VideoProcessingNames == {"ffmpeg", "node-ffmpeg"}
DatabaseNames == {"mysql2", "pg", "mongodb", "redis", "elasticsearch"}

\* SomeIncluded written with every in place of some
RECURSIVE EveryIncluded(_, _, _)
EveryIncluded(heavyPackages, names, i) ==
    IF i > Len(heavyPackages) THEN TRUE
    ELSE IF heavyPackages[i] \notin names THEN FALSE
    ELSE EveryIncluded(heavyPackages, names, i + 1)

\* heavyPackages.some(pkg => names.includes(pkg))
RECURSIVE SomeIncluded(_, _, _)
SomeIncluded(heavyPackages, names, i) ==
    IF i > Len(heavyPackages) THEN FALSE
    ELSE IF heavyPackages[i] \in names THEN TRUE
    ELSE SomeIncluded(heavyPackages, names, i + 1)

\* Analysis that leaves the dependency count at zero
AnalysisWithoutCount(heavyPackages, totalDependencies) ==
    [hasBrowserAutomation |-> SomeIncluded(heavyPackages, BrowserAutomationNames, 1),
     hasAI |-> SomeIncluded(heavyPackages, AINames, 1),
     hasImageProcessing |-> SomeIncluded(heavyPackages, ImageProcessingNames, 1),
     hasVideoProcessing |-> SomeIncluded(heavyPackages, VideoProcessingNames, 1),
     hasDatabase |-> SomeIncluded(heavyPackages, DatabaseNames, 1),
     totalDependencies |-> 0]

Analysis(heavyPackages, totalDependencies) ==
    [hasBrowserAutomation |-> SomeIncluded(heavyPackages, BrowserAutomationNames, 1),
     hasAI |-> SomeIncluded(heavyPackages, AINames, 1),
     hasImageProcessing |-> SomeIncluded(heavyPackages, ImageProcessingNames, 1),
     hasVideoProcessing |-> SomeIncluded(heavyPackages, VideoProcessingNames, 1),
     hasDatabase |-> SomeIncluded(heavyPackages, DatabaseNames, 1),
     totalDependencies |-> totalDependencies]

\* the report the catch block returns
DefaultReport ==
    [heavyPackages |-> <<>>,
     totalWeight |-> Num(0),
     categories |-> <<>>,
     riskLevel |-> "LOW",
     analysis |-> [hasBrowserAutomation |-> FALSE,
                   hasAI |-> FALSE,
                   hasImageProcessing |-> FALSE,
                   hasVideoProcessing |-> FALSE,
                   hasDatabase |-> FALSE,
                   totalDependencies |-> 0]]

\* pkg.dependencies, pkg.devDependencies: reading a property of null throws
\* a TypeError; of a number, boolean, string or array gives undefined.
GetField(pkg, name) ==
    IF pkg.t = "obj" /\ \E i \in 1..Len(pkg.props) : pkg.props[i][1] = name
    THEN pkg.props[CHOOSE i \in 1..Len(pkg.props) : pkg.props[i][1] = name][2]
    ELSE Undefined

\* MergeDeps with the two spreads swapped
MergeDepsDevFirst(pkg) ==
    CopyDataProperties(
        CopyDataProperties(<<>>, SpreadSource(GetField(pkg, "devDependencies")), 1),
        SpreadSource(GetField(pkg, "dependencies")), 1)

\* { ...pkg.dependencies, ...pkg.devDependencies }
MergeDeps(pkg) ==
    CopyDataProperties(
        CopyDataProperties(<<>>, SpreadSource(GetField(pkg, "dependencies")), 1),
        SpreadSource(GetField(pkg, "devDependencies")), 1)

\* the statements of the try block after a successful JSON.parse
ScoreManifest(pkg) ==
    LET allDeps == MergeDeps(pkg)
        keys == ObjectKeys(allDeps)
        scanned == Scan(keys)
    IN [heavyPackages |-> scanned.heavyPackages,
        totalWeight |-> scanned.totalWeight,
        categories |-> scanned.categories,
        riskLevel |-> RiskLevel(scanned.totalWeight),
        analysis |-> Analysis(scanned.heavyPackages, Len(keys))]

\* the try block: [threw |-> TRUE] when a statement in it throws
TryBlock(text) ==
    LET parsed == JSONParse(text) IN
    IF parsed.threw THEN [threw |-> TRUE, value |-> Undefined]
    ELSE IF parsed.value.t = "null" THEN [threw |-> TRUE, value |-> Undefined]
    ELSE [threw |-> FALSE, value |-> ScoreManifest(parsed.value)]

\* analyzeDependencies.execute as a function of the manifest text
AnalyzeDependencies(text) ==
    LET t == TryBlock(text) IN
    IF t.threw THEN DefaultReport ELSE t.value

(***************************************************************************)
(* The manifest texts the tool is called with.  A text is written from a   *)
(* JSON value (declared.value, whose objects list their members as the     *)
(* text declares them, duplicates included) and, for the texts that are    *)
(* not JSON, cut short or given a stray word.                              *)
(***************************************************************************)
RECURSIVE Stringify(_), StringifyItems(_, _), StringifyMembers(_, _)

Stringify(v) ==
    CASE v.t = "null" -> <<NullTok>>
      [] v.t = "bool" -> IF v.b THEN <<TrueTok>> ELSE <<FalseTok>>
      [] v.t = "num" -> <<NumTok(v.n)>>
      [] v.t = "str" -> <<StrTok(v.s)>>
      [] v.t = "arr" -> <<LBrack>> \o StringifyItems(v.items, 1) \o <<RBrack>>
      [] v.t = "obj" -> <<LBrace>> \o StringifyMembers(v.props, 1) \o <<RBrace>>

StringifyItems(items, i) ==
    IF i > Len(items) THEN <<>>
    ELSE Stringify(items[i])
             \o (IF i < Len(items) THEN <<Comma>> ELSE <<>>)
             \o StringifyItems(items, i + 1)

StringifyMembers(props, i) ==
    IF i > Len(props) THEN <<>>
    ELSE <<StrTok(props[i][1]), Colon>> \o Stringify(props[i][2])
             \o (IF i < Len(props) THEN <<Comma>> ELSE <<>>)
             \o StringifyMembers(props, i + 1)

\* the package names manifests are written with: catalog names whose
\* weights reach every risk threshold, a name the catalog lacks, and a name
\* that is a member of Object.prototype
PoolNames ==
    {"tensorflow", "torch", "canvas", "jimp", "pg", "left-pad", "constructor"}

\* the version range declared at the i-th entry of a manifest
VersionAt(i) == JStr("^" \o ToString(i))

\* a dependencies / devDependencies object declaring names[from..to]
Section(names, from, to) ==
    JObj([i \in 1..(to - from + 1) |->
             <<names[from + i - 1], VersionAt(from + i - 1)>>])

\* a manifest declaring names[1..split] as dependencies and the rest as
\* devDependencies; an empty section may be left out
ManifestOf(names, split, omitDeps, omitDev) ==
    JObj(<<<<"name", JStr("app")>>>>
         \o (IF omitDeps THEN <<>>
             ELSE <<<<"dependencies", Section(names, 1, split)>>>>)
         \o (IF omitDev THEN <<>>
             ELSE <<<<"devDependencies", Section(names, split + 1, Len(names))>>>>))

NameSeqs(n) == UNION {[1..k -> PoolNames] : k \in 0..n}
DistinctNameSeqs(n) ==
    {names \in NameSeqs(n) :
        \A i, j \in 1..Len(names) : names[i] = names[j] => i = j}

ManifestsOver(seqs) ==
    {ManifestOf(q[1], q[2], q[3], q[4]) :
        q \in {q \in seqs \X (0..(MaxEntries + 1)) \X BOOLEAN \X BOOLEAN :
                  /\ q[2] <= Len(q[1])
                  /\ q[3] => q[2] = 0
                  /\ q[4] => q[2] = Len(q[1])}}

\* manifests that declare every name once, manifests that may declare a
\* name again (in the same section or in the other), and the manifests
\* behind the texts that are not JSON
Manifests == ManifestsOver(DistinctNameSeqs(MaxEntries))
RepeatingManifests == ManifestsOver(NameSeqs(MaxRepeatEntries))
CorruptedManifests == ManifestsOver(NameSeqs(MaxCorruptEntries))

\* other values the two fields hold: values that are no objects, objects
\* with array-index keys, and objects naming browser and video packages
OddFieldValues ==
    {JNull, Num(1), JBool(TRUE), JStr(""), JStr("pg"),
     JArr(<<>>), JArr(<<JStr("tensorflow")>>),
     JArr(<<JStr("pg"), JStr("jimp")>>),
     JObj(<<>>),
     JObj(<<<<"pg", VersionAt(1)>>>>),
     JObj(<<<<"puppeteer", VersionAt(1)>>, <<"ffmpeg", VersionAt(2)>>>>),
     JObj(<<<<"1", VersionAt(1)>>, <<"jimp", VersionAt(2)>>, <<"0", VersionAt(3)>>>>)}

OddManifests ==
    {JNull, Num(1), JBool(FALSE), JStr("pg"), JArr(<<>>),
     JArr(<<JStr("dependencies")>>), JObj(<<>>)}
    \cup {JObj(<<<<"dependencies", d>>>>) : d \in OddFieldValues}
    \cup {JObj(<<<<"devDependencies", d>>>>) : d \in OddFieldValues}
    \cup {JObj(<<<<"dependencies", d>>, <<"devDependencies", e>>>>) :
             d \in OddFieldValues, e \in OddFieldValues}

\* "{not json" and other texts made of words that are no JSON
NonJsonTexts == {<<LBrace, BadTok, BadTok>>, <<BadTok>>, <<BadTok, BadTok>>}

Truncate(text, n) == SubSeq(text, 1, n)
InsertBad(text, n) == SubSeq(text, 1, n) \o <<BadTok>> \o SubSeq(text, n + 1, Len(text))

\* projectHeavinessAnalyzer is not running
AnalyzerIdle ==
    /\ context = Undefined
    /\ phaPc = "idle"
    /\ paths = <<>>
    /\ fileRes = Undefined
    /\ dependencyAnalysis = Undefined
    /\ repoSize = Undefined
    /\ calls = <<>>
    /\ reportPrompt = Undefined
    /\ output = Undefined

Init ==
    /\ AnalyzerIdle
    /\ pc = "called"
    /\ result = [status |-> "pending"]
    /\ \/ \E m \in Manifests \cup RepeatingManifests :
            /\ declared = [family |-> "manifest", value |-> m]
            /\ packageJson = Stringify(m)
       \/ \E m \in OddManifests :
            /\ declared = [family |-> "other", value |-> m]
            /\ packageJson = Stringify(m)
       \/ \E m \in CorruptedManifests :
            \E n \in 0..(Len(Stringify(m)) - 1) :
                /\ declared = [family |-> "truncated", value |-> m]
                /\ packageJson = Truncate(Stringify(m), n)
       \/ \E m \in CorruptedManifests :
            \E n \in 0..Len(Stringify(m)) :
                /\ declared = [family |-> "garbled", value |-> m]
                /\ packageJson = InsertBad(Stringify(m), n)
       \/ \E text \in NonJsonTexts :
            /\ declared = [family |-> "garbled", value |-> JNull]
            /\ packageJson = text

(***************************************************************************)
(* analyzeDependencies.execute.  The try block either runs to its return   *)
(* statement or throws, and then the catch block returns.                  *)
(***************************************************************************)
ExecuteTry ==
    /\ pc = "called"
    /\ LET t == TryBlock(packageJson) IN
           /\ ~t.threw
           /\ result' = [status |-> "returned", report |-> t.value]
    /\ pc' = "done"
    /\ UNCHANGED <<packageJson, declared, phaVars>>

\* ExecuteCatch without its catch block: the exception leaves execute
ExecuteCatchRethrows ==
    /\ pc = "called"
    /\ TryBlock(packageJson).threw
    /\ result' = [status |-> "threw"]
    /\ pc' = "done"
    /\ UNCHANGED <<packageJson, declared, phaVars>>

ExecuteCatch ==
    /\ pc = "called"
    /\ TryBlock(packageJson).threw
    /\ result' = [status |-> "returned", report |-> DefaultReport]
    /\ pc' = "done"
    /\ UNCHANGED <<packageJson, declared, phaVars>>

Next == ExecuteTry \/ ExecuteCatch

Spec == Init /\ [][Next]_vars

TypeOK ==
    /\ pc \in {"idle", "called", "done"}
    /\ pc = "called" => result = [status |-> "pending"]
    /\ pc = "done" => result.status \in {"returned", "threw"}

(***************************************************************************)
(* projectHeavinessAnalyzer.execute                                        *)
(* (src/src/mastra/tools/project-heaviness-analyzer.ts:28-204).            *)
(*                                                                         *)
(* The function awaits, in this order, the file list, the content of       *)
(* package.json (only when the list names it), the scorer (only when the   *)
(* content came with ok), the repository size and the text generation.     *)
(* One action is one awaited call together with the statements that follow *)
(* it up to the next await.  What a provider answers is an input: each     *)
(* action draws the answer from the answers the provider can give.         *)
(* calls records the calls in the order they are issued.                   *)
(***************************************************************************)
\* the characters of package.json copied into the prompt
PromptManifestLimit == 2000

Owners == {"facebook"}
Repos == {"react", "vite"}
\* serverSpecs is optional
ServerSpecs == {Undefined, [cpuCores |-> 4, ramGB |-> 8]}

\* what the string tests of the code give on the paths of Listings (below),
\* every pair left out being a test that fails: <<p, s>> \in EndsWithFacts iff p.endsWith(s),
\* <<p, s>> \in IncludesFacts iff p.includes(s),
\* <<p, s>> \in LowerIncludesFacts iff p.toLowerCase().includes(s)
EndsWithFacts ==
    {<<"src/index.ts", ".ts">>, <<"app.js", ".js">>, <<"main.py", ".py">>}
IncludesFacts ==
    {<<"docker-compose.yml", "docker-compose">>, <<"k8s/deploy.yaml", "k8s">>}
LowerIncludesFacts == {<<"Dockerfile", "dockerfile">>}

EndsWith(p, suffix) == <<p, suffix>> \in EndsWithFacts
Includes(p, part) == <<p, part>> \in IncludesFacts
LowerIncludes(p, part) == <<p, part>> \in LowerIncludesFacts

\* paths.filter(p => p.endsWith(a) || p.endsWith(b)).length
CountEndsWith(ps, suffixes) ==
    Cardinality({i \in 1..Len(ps) : \E suffix \in suffixes : EndsWith(ps[i], suffix)})

\* paths.includes("package.json"): an element equal to the string
HasPackageJson(ps) == \E i \in 1..Len(ps) : ps[i] = "package.json"
HasDockerfile(ps) == \E i \in 1..Len(ps) : LowerIncludes(ps[i], "dockerfile")
HasDockerCompose(ps) == \E i \in 1..Len(ps) : Includes(ps[i], "docker-compose")
HasK8sConfig(ps) ==
    \E i \in 1..Len(ps) : Includes(ps[i], "k8s") \/ Includes(ps[i], "kubernetes")

FileTypes(ps) ==
    [typescript |-> CountEndsWith(ps, {".ts"}),
     javascript |-> CountEndsWith(ps, {".js"}),
     python |-> CountEndsWith(ps, {".py"}),
     java |-> CountEndsWith(ps, {".java"}),
     go |-> CountEndsWith(ps, {".go"}),
     rust |-> CountEndsWith(ps, {".rs"}),
     cpp |-> CountEndsWith(ps, {".cpp", ".c"})]

\* the file lists getFilePaths answers with
Listings ==
    {<<>>,
     <<"package.json">>,
     <<"src/index.ts", "package.json", "Dockerfile">>,
     <<"lib/package.json", "main.py">>,
     <<"docker-compose.yml", "k8s/deploy.yaml", "app.js">>}

\* the answers of getFileContent: a text with the value it was written
\* from, with ok or without
FileAnswers ==
    {[ok |-> ok, content |-> Stringify(m),
      from |-> [family |-> "manifest", value |-> m]] :
         ok \in BOOLEAN, m \in CorruptedManifests}
    \cup {[ok |-> ok, content |-> text,
           from |-> [family |-> "garbled", value |-> JNull]] :
              ok \in BOOLEAN, text \in NonJsonTexts \cup {<<>>}}

\* res.data.size of the repository, in KB
RepoSizesKB == {1536, 2047}

\* Math.round((size / 1024) * 100) / 100, as a number of hundredths
RepoSizeMB(sizeKB) == [hundredths |-> (sizeKB * 200 + 1024) \div 2048]

\* let dependencyAnalysis = { heavyPackages: [], ... }
InitialDependencyAnalysis ==
    [heavyPackages |-> <<>>,
     totalWeight |-> Num(0),
     categories |-> <<>>,
     riskLevel |-> "LOW",
     analysis |-> [hasBrowserAutomation |-> FALSE,
                   hasAI |-> FALSE,
                   hasImageProcessing |-> FALSE,
                   hasVideoProcessing |-> FALSE,
                   hasDatabase |-> FALSE,
                   totalDependencies |-> 0]]

Call(tool, ctx) == [tool |-> tool, context |-> ctx]

\* packageJson.slice(0, 2000) and the "..." that follows a longer text
PromptManifest(text) ==
    [text |-> SubSeq(text, 1, IF Len(text) < PromptManifestLimit
                                THEN Len(text) ELSE PromptManifestLimit),
     ellipsis |-> Len(text) > PromptManifestLimit]

\* what the template of reportPrompt is filled with
PromptInputs ==
    [owner |-> context.owner,
     repo |-> context.repo,
     repoSizeMB |-> repoSize.repoSizeMB,
     totalFiles |-> Len(paths),
     hasDockerfile |-> HasDockerfile(paths),
     hasDockerCompose |-> HasDockerCompose(paths),
     hasK8sConfig |-> HasK8sConfig(paths),
     fileTypes |-> FileTypes(paths),
     dependencyAnalysis |-> dependencyAnalysis,
     specs |-> IF context.serverSpecs = Undefined
               THEN [cpuCores |-> 2, ramGB |-> 4]
               ELSE context.serverSpecs,
     packageJson |-> PromptManifest(packageJson)]

InitAnalyzer ==
    /\ \E owner \in Owners, repo \in Repos, serverSpecs \in ServerSpecs :
           context = [owner |-> owner, repo |-> repo, serverSpecs |-> serverSpecs]
    /\ phaPc = "start"
    /\ paths = <<>>
    /\ fileRes = Undefined
    /\ dependencyAnalysis = Undefined
    /\ repoSize = Undefined
    /\ calls = <<>>
    /\ reportPrompt = Undefined
    /\ output = Undefined
    /\ packageJson = <<>>
    /\ declared = [family |-> "none", value |-> JNull]
    /\ pc = "idle"
    /\ result = [status |-> "pending"]

\* const paths = await getFilePaths.execute(...), then the flags, the
\* empty packageJson and the initial dependencyAnalysis
GetFilePaths ==
    /\ phaPc = "start"
    /\ \E listing \in Listings : paths' = listing
    /\ calls' = Append(calls,
           Call("getFilePaths",
                [owner |-> context.owner, repo |-> context.repo,
                 tree_sha |-> "main"]))
    /\ dependencyAnalysis' = InitialDependencyAnalysis
    /\ phaPc' = "listed"
    /\ UNCHANGED <<packageJson, declared, pc, result, context, fileRes,
                   repoSize, reportPrompt, output>>

\* GetFileContent issued whatever the file list holds
GetFileContentAlways ==
    /\ phaPc = "listed"
    /\ \E answer \in FileAnswers :
          /\ fileRes' = [ok |-> answer.ok, content |-> answer.content]
          /\ declared' = answer.from
    /\ calls' = Append(calls,
           Call("getFileContent",
                [owner |-> context.owner, repo |-> context.repo,
                 path |-> "package.json"]))
    /\ phaPc' = "fetched"
    /\ UNCHANGED <<packageJson, pc, result, context, paths,
                   dependencyAnalysis, repoSize, reportPrompt, output>>

\* if (hasPackageJson) { const fileRes = await getFileContent.execute(...)
GetFileContent ==
    /\ phaPc = "listed"
    /\ HasPackageJson(paths)
    /\ \E answer \in FileAnswers :
          /\ fileRes' = [ok |-> answer.ok, content |-> answer.content]
          /\ declared' = answer.from
    /\ calls' = Append(calls,
           Call("getFileContent",
                [owner |-> context.owner, repo |-> context.repo,
                 path |-> "package.json"]))
    /\ phaPc' = "fetched"
    /\ UNCHANGED <<packageJson, pc, result, context, paths,
                   dependencyAnalysis, repoSize, reportPrompt, output>>

\* InvokeScorer without the test of fileRes.ok
InvokeScorerUnchecked ==
    /\ phaPc = "fetched"
    /\ packageJson' = fileRes.content
    /\ calls' = Append(calls,
           Call("analyzeDependencies", [packageJson |-> fileRes.content]))
    /\ pc' = "called"
    /\ phaPc' = "scoring"
    /\ UNCHANGED <<declared, result, context, paths, fileRes,
                   dependencyAnalysis, repoSize, reportPrompt, output>>

\* if (fileRes.ok) { packageJson = fileRes.content;
\*                   ... await analyzeDependencies.execute(...)
InvokeScorer ==
    /\ phaPc = "fetched"
    /\ fileRes.ok
    /\ packageJson' = fileRes.content
    /\ calls' = Append(calls,
           Call("analyzeDependencies", [packageJson |-> fileRes.content]))
    /\ pc' = "called"
    /\ phaPc' = "scoring"
    /\ UNCHANGED <<declared, result, context, paths, fileRes,
                   dependencyAnalysis, repoSize, reportPrompt, output>>

\* dependencyAnalysis = (what analyzeDependencies.execute returned)
ScorerReturns ==
    /\ phaPc = "scoring"
    /\ pc = "done"
    /\ result.status = "returned"
    /\ dependencyAnalysis' = result.report
    /\ phaPc' = "size"
    /\ UNCHANGED <<packageJson, declared, pc, result, context, paths, fileRes,
                   repoSize, calls, reportPrompt, output>>

\* const repoSize = await getRepoSize.execute(...): reached after the
\* scorer, or straight from the two tests when one of them fails
GetRepoSize ==
    /\ \/ phaPc = "size"
       \/ phaPc = "listed" /\ ~HasPackageJson(paths)
       \/ phaPc = "fetched" /\ ~fileRes.ok
    /\ \E sizeKB \in RepoSizesKB :
           repoSize' = [repoSizeMB |-> RepoSizeMB(sizeKB)]
    /\ calls' = Append(calls,
           Call("getRepoSize", [owner |-> context.owner, repo |-> context.repo]))
    /\ phaPc' = "sized"
    /\ UNCHANGED <<packageJson, declared, pc, result, context, paths, fileRes,
                   dependencyAnalysis, reportPrompt, output>>

\* the prompt, await generateText(...), and
\* return result.text?.trim() ?? "Unable to generate report."
GenerateReport ==
    /\ phaPc = "sized"
    /\ reportPrompt' = PromptInputs
    /\ calls' = Append(calls, Call("generateText", [prompt |-> PromptInputs]))
    /\ \E text \in {Undefined, JStr("# Project Resource Analysis")} :
           output' = IF text = Undefined
                     THEN JStr("Unable to generate report.")
                     ELSE text
    /\ phaPc' = "returned"
    /\ UNCHANGED <<packageJson, declared, pc, result, context, paths, fileRes,
                   dependencyAnalysis, repoSize>>

NextAnalyzer ==
    \/ GetFilePaths
    \/ GetFileContent
    \/ InvokeScorer
    \/ ExecuteTry
    \/ ExecuteCatch
    \/ ScorerReturns
    \/ GetRepoSize
    \/ GenerateReport

SpecAnalyzer == InitAnalyzer /\ [][NextAnalyzer]_vars

(***************************************************************************)
(* What the properties below read off a state.                             *)
(***************************************************************************)
Done == pc = "done"
Returned == pc = "done" /\ result.status = "returned"
Report == result.report

CatalogNames == DOMAIN heavyPackagesList
RiskLevels == {"LOW", "MEDIUM", "HIGH", "CRITICAL"}

\* the text is a manifest following the schema (an object whose
\* dependencies and devDependencies, where present, are objects)
IsManifest == declared.family = "manifest"
\* the text is no JSON: cut short, or holding a word that is no token
IsCorrupted == declared.family \in {"truncated", "garbled"}

\* the names a section of the manifest declares, in the order of the text
DeclaredSection(field) ==
    LET ps == declared.value.props
        at == {i \in 1..Len(ps) : ps[i][1] = field}
    IN IF at = {} THEN <<>>
       ELSE KeysOf(ps[CHOOSE i \in at : TRUE][2].props)

DeclaredDeps == DeclaredSection("dependencies")
DeclaredDev == DeclaredSection("devDependencies")
DeclaredNames == DeclaredDeps \o DeclaredDev

RECURSIVE SumWeights(_)
SumWeights(names) ==
    IF names = {} THEN 0
    ELSE LET n == CHOOSE n \in names : TRUE
         IN heavyPackagesList[n].weight + SumWeights(names \ {n})

AllFlagsFalse(a) ==
    /\ ~a.hasBrowserAutomation
    /\ ~a.hasAI
    /\ ~a.hasImageProcessing
    /\ ~a.hasVideoProcessing
    /\ ~a.hasDatabase

IsZeroReport(r) ==
    /\ r.heavyPackages = <<>>
    /\ r.totalWeight = Num(0)
    /\ DOMAIN r.categories = {}
    /\ r.riskLevel = "LOW"
    /\ AllFlagsFalse(r.analysis)
    /\ r.analysis.totalDependencies = 0

(***************************************************************************)
(* C1.  A manifest text that fails to deserialize (the empty text, a text  *)
(* cut short, a text with words that are no JSON) never makes execute      *)
(* raise: execute returns the zero/default report.                         *)
(***************************************************************************)
C1_FailSoft ==
    Done /\ (IsCorrupted \/ JSONParse(packageJson).threw)
        => /\ JSONParse(packageJson).threw
           /\ result.status = "returned"
           /\ IsZeroReport(Report)

\* a manifest naming a heavy package, cut short after the name, was scored
C1_Witness ==
    /\ Returned
    /\ declared.family = "truncated"
    /\ \E i \in 1..Len(packageJson) : packageJson[i] = StrTok("tensorflow")
    /\ IsZeroReport(Report)

(***************************************************************************)
(* C2.  execute is total: for every text it returns, without raising, a    *)
(* report whose totalWeight is a non-negative integer and whose riskLevel  *)
(* is LOW, MEDIUM, HIGH or CRITICAL.                                       *)
(***************************************************************************)
C2_TotalWellFormed ==
    Done => /\ result.status = "returned"
            /\ IsNum(Report.totalWeight)
            /\ Report.totalWeight.n >= 0
            /\ Report.riskLevel \in RiskLevels

(***************************************************************************)
(* C3.  Lookup is exact match against the catalog table: the names in      *)
(* heavyPackages are exactly the manifest's keys that are catalog names,   *)
(* and no other key adds to heavyPackages, totalWeight or categories.      *)
(***************************************************************************)
C3_ExactMatch ==
    Returned /\ IsManifest =>
        LET matched == Range(DeclaredNames) \cap CatalogNames IN
        /\ Range(Report.heavyPackages) = matched
        /\ Report.totalWeight = Num(SumWeights(matched))
        /\ DOMAIN Report.categories =
               {heavyPackagesList[n].category : n \in matched}

(***************************************************************************)
(* C4.  In every report totalWeight is the sum of the values of            *)
(* categories and the sum of the catalog weights of the names in           *)
(* heavyPackages, and every key of categories is the category of a name in *)
(* heavyPackages.                                                          *)
(***************************************************************************)
RECURSIVE SumCategories(_, _)
SumCategories(categories, labels) ==
    IF labels = {} THEN 0
    ELSE LET k == CHOOSE k \in labels : TRUE
         IN categories[k].n + SumCategories(categories, labels \ {k})

RECURSIVE SumListed(_, _)
SumListed(names, i) ==
    IF i > Len(names) THEN 0
    ELSE heavyPackagesList[names[i]].weight + SumListed(names, i + 1)

C4_WeightSums ==
    Returned =>
        /\ IsNum(Report.totalWeight)
        /\ \A k \in DOMAIN Report.categories : IsNum(Report.categories[k])
        /\ Report.totalWeight.n =
               SumCategories(Report.categories, DOMAIN Report.categories)
        /\ Range(Report.heavyPackages) \subseteq CatalogNames
        /\ Report.totalWeight.n = SumListed(Report.heavyPackages, 1)
        /\ \A k \in DOMAIN Report.categories :
               \E n \in Range(Report.heavyPackages) :
                   heavyPackagesList[n].category = k

(***************************************************************************)
(* C5.  riskLevel is decided by totalWeight alone: LOW iff totalWeight is  *)
(* 0..5, MEDIUM iff 6..15, HIGH iff 16..30, CRITICAL iff 31 or more, for   *)
(* every totalWeight a manifest can produce.                               *)
(***************************************************************************)
WeightIn(w, lo, hi) == IsNum(w) /\ lo <= w.n /\ w.n <= hi

C5_RiskThresholds ==
    Returned =>
        /\ Report.riskLevel = "LOW" <=> WeightIn(Report.totalWeight, 0, 5)
        /\ Report.riskLevel = "MEDIUM" <=> WeightIn(Report.totalWeight, 6, 15)
        /\ Report.riskLevel = "HIGH" <=> WeightIn(Report.totalWeight, 16, 30)
        /\ Report.riskLevel = "CRITICAL" <=>
               (IsNum(Report.totalWeight) /\ Report.totalWeight.n >= 31)

(***************************************************************************)
(* C6.  Each capability flag is true exactly when heavyPackages holds at   *)
(* least one name of the flag's name set.                                  *)
(***************************************************************************)
Holds(r, names) == Range(r.heavyPackages) \cap names # {}

C6_FlagsIffPresent ==
    Returned =>
        /\ Report.analysis.hasBrowserAutomation <=> Holds(Report, BrowserAutomationNames)
        /\ Report.analysis.hasAI <=> Holds(Report, AINames)
        /\ Report.analysis.hasImageProcessing <=> Holds(Report, ImageProcessingNames)
        /\ Report.analysis.hasVideoProcessing <=> Holds(Report, VideoProcessingNames)
        /\ Report.analysis.hasDatabase <=> Holds(Report, DatabaseNames)

\* a report with several heavy packages, some flags set and some not
C6_Witness ==
    /\ Returned
    /\ Len(Report.heavyPackages) >= 2
    /\ Report.analysis.hasBrowserAutomation
    /\ Report.analysis.hasVideoProcessing
    /\ ~Report.analysis.hasAI
    /\ ~Report.analysis.hasDatabase

(***************************************************************************)
(* C7.  heavyPackages has no duplicates; a catalog name declared in both   *)
(* dependencies and devDependencies (or twice in one of them) is listed    *)
(* once and its weight is counted once.                                    *)
(***************************************************************************)
DeclaredMatches == Range(DeclaredNames) \cap CatalogNames

C7_NoDuplicates ==
    Returned =>
        /\ \A i, j \in 1..Len(Report.heavyPackages) :
               Report.heavyPackages[i] = Report.heavyPackages[j] => i = j
        /\ IsManifest =>
               /\ \A n \in DeclaredMatches :
                      Cardinality({i \in 1..Len(Report.heavyPackages) :
                                      Report.heavyPackages[i] = n}) = 1
               /\ \A n \in DeclaredMatches :
                      Report.categories[heavyPackagesList[n].category] =
                          Num(SumWeights({m \in DeclaredMatches :
                                  heavyPackagesList[m].category =
                                      heavyPackagesList[n].category}))
               /\ IsNum(Report.totalWeight) =>
                      Report.totalWeight.n = SumWeights(DeclaredMatches)

\* a catalog name declared in both sections, next to another heavy package
C7_Witness ==
    /\ Returned
    /\ IsManifest
    /\ \E n \in CatalogNames :
          /\ n \in Range(DeclaredDeps)
          /\ n \in Range(DeclaredDev)
          /\ n \in Range(Report.heavyPackages)
    /\ Len(Report.heavyPackages) >= 2
    /\ IsNum(Report.totalWeight)

(***************************************************************************)
(* C8.  heavyPackages lists the matching names in first-seen order: those  *)
(* of dependencies in the order declared, then those of devDependencies    *)
(* in the order declared.                                                  *)
(***************************************************************************)
RECURSIVE FirstSeen(_, _)
FirstSeen(names, i) ==
    IF i > Len(names) THEN <<>>
    ELSE IF \E j \in 1..(i - 1) : names[j] = names[i]
         THEN FirstSeen(names, i + 1)
         ELSE <<names[i]>> \o FirstSeen(names, i + 1)

SpecOrderScenario ==
    JObj(<<<<"dependencies",
             JObj(<<<<"tensorflow", JStr("^1")>>, <<"sharp", JStr("^1")>>>>)>>,
           <<"devDependencies", JObj(<<<<"jest", JStr("^1")>>>>)>>>>)

C8_FirstSeenOrder ==
    /\ Returned /\ IsManifest =>
          /\ Report.heavyPackages =
                 SelectSeq(FirstSeen(DeclaredNames, 1),
                           LAMBDA n : n \in Range(Report.heavyPackages))
          /\ DeclaredMatches \subseteq Range(Report.heavyPackages)
    /\ Returned =>
          LET r == AnalyzeDependencies(Stringify(SpecOrderScenario)) IN
          /\ r.heavyPackages = <<"tensorflow", "sharp", "jest">>
          /\ r.totalWeight = Num(20)
          /\ r.riskLevel = "HIGH"

\* heavy packages in both sections, declared in an order that is not the
\* catalog's and not alphabetical
C8_Witness ==
    /\ Returned
    /\ IsManifest
    /\ DeclaredDeps = <<"torch", "jimp">>
    /\ DeclaredDev = <<"pg", "canvas">>
    /\ Report.heavyPackages = <<"torch", "jimp", "pg", "canvas">>

(***************************************************************************)
(* C9.  totalDependencies is the number of distinct keys of dependencies   *)
(* and devDependencies together (a missing section counting as empty);     *)
(* a key that matches no catalog entry is counted there and changes        *)
(* nothing else of the report.                                             *)
(***************************************************************************)
\* the manifest without the entries whose key is no catalog name
StripSection(v) ==
    JObj(SelectSeq(v.props, LAMBDA p : p[1] \in CatalogNames))
StripNonCatalog(m) ==
    JObj([i \in 1..Len(m.props) |->
             IF m.props[i][1] \in {"dependencies", "devDependencies"}
             THEN <<m.props[i][1], StripSection(m.props[i][2])>>
             ELSE m.props[i]])

SpecCountScenario ==
    JObj(<<<<"dependencies",
             JObj(<<<<"puppeteer", JStr("^1.0")>>, <<"left-pad", JStr("^1.0")>>>>)>>,
           <<"devDependencies", JObj(<<>>)>>>>)

C9_TotalDependencies ==
    /\ Returned /\ IsManifest =>
          /\ Report.analysis.totalDependencies = Cardinality(Range(DeclaredNames))
          /\ LET r == AnalyzeDependencies(Stringify(StripNonCatalog(declared.value)))
             IN /\ Report.heavyPackages = r.heavyPackages
                /\ Report.totalWeight = r.totalWeight
                /\ Report.categories = r.categories
                /\ Report.riskLevel = r.riskLevel
                /\ [Report.analysis EXCEPT !.totalDependencies = 0] =
                       [r.analysis EXCEPT !.totalDependencies = 0]
    /\ Returned =>
          LET r == AnalyzeDependencies(Stringify(SpecCountScenario)) IN
          /\ r.analysis.totalDependencies = 2
          /\ r.heavyPackages = <<"puppeteer">>
          /\ r.totalWeight = Num(8)

(***************************************************************************)
(* C10.  Monotonicity: adding one more catalog-matching dependency to a    *)
(* manifest, in dependencies or in devDependencies, gives a totalWeight    *)
(* that is >= the one before and keeps every flag that was true.           *)
(***************************************************************************)
\* the manifest m with the entry name declared last in the section field
AddDependency(m, field, name) ==
    IF \E i \in 1..Len(m.props) : m.props[i][1] = field
    THEN JObj([i \in 1..Len(m.props) |->
                  IF m.props[i][1] = field
                  THEN <<field, JObj(Append(m.props[i][2].props,
                                            <<name, JStr("^9")>>))>>
                  ELSE m.props[i]])
    ELSE JObj(Append(m.props, <<field, JObj(<<<<name, JStr("^9")>>>>)>>))

\* a >= b on ECMAScript numbers: false when either is NaN
JSGreaterEq(a, b) == IsNum(a) /\ IsNum(b) /\ a.n >= b.n

C10_Monotone ==
    Returned /\ IsManifest =>
        \A field \in {"dependencies", "devDependencies"} :
            \A name \in CatalogNames \cap PoolNames :
                LET r == AnalyzeDependencies(
                             Stringify(AddDependency(declared.value, field, name)))
                IN /\ JSGreaterEq(r.totalWeight, Report.totalWeight)
                   /\ Report.analysis.hasBrowserAutomation
                          => r.analysis.hasBrowserAutomation
                   /\ Report.analysis.hasAI => r.analysis.hasAI
                   /\ Report.analysis.hasImageProcessing
                          => r.analysis.hasImageProcessing
                   /\ Report.analysis.hasVideoProcessing
                          => r.analysis.hasVideoProcessing
                   /\ Report.analysis.hasDatabase => r.analysis.hasDatabase

(***************************************************************************)
(* C11.  The hasAI name set against the AI/ML category.  The claim: hasAI  *)
(* uses a narrower set, so some AI/ML-category package, alone among the    *)
(* heavy packages, leaves hasAI false.  The code: the set holds every      *)
(* AI/ML name and the Computer Vision names as well, so every              *)
(* AI/ML-category package alone sets hasAI.                                *)
(***************************************************************************)
NamesOfCategory(c) == {n \in CatalogNames : heavyPackagesList[n].category = c}

\* the flags of a report whose heavyPackages is the one name n
SoloFlags(n) == Analysis(<<n>>, 1)

\* the claim as made
C11_NarrowerThanCategory ==
    Returned => \E n \in NamesOfCategory("AI/ML") : ~SoloFlags(n).hasAI

\* the claim as amended
C11_CategoryWithinFlag ==
    Returned =>
        /\ \A i \in 1..Len(Report.heavyPackages) :
               Report.heavyPackages[i] \in NamesOfCategory("AI/ML")
                   => Report.analysis.hasAI
        /\ \A n \in NamesOfCategory("AI/ML") \cup NamesOfCategory("Computer Vision") :
               SoloFlags(n).hasAI
        /\ \A n \in CatalogNames :
               SoloFlags(n).hasAI
                   => n \in NamesOfCategory("AI/ML") \cup NamesOfCategory("Computer Vision")

\* an AI/ML package other than tensorflow, alone in the manifest
C11_Witness ==
    /\ Returned
    /\ Report.heavyPackages = <<"torch">>
    /\ Report.analysis.hasAI

(***************************************************************************)
(* C12.  A name declared in both dependencies and devDependencies.  The    *)
(* claim: the merged mapping holds the value declared in dependencies.     *)
(* The code: the second spread overwrites, so it holds the value declared  *)
(* in devDependencies; the name keeps the one place it got from            *)
(* dependencies.                                                           *)
(***************************************************************************)
\* allDeps of the run
MergedDeps == MergeDeps(JSONParse(packageJson).value)

\* the entries a section of the manifest declares, in the order of the text
DeclaredEntries(field) ==
    LET ps == declared.value.props
        at == {i \in 1..Len(ps) : ps[i][1] = field}
    IN IF at = {} THEN <<>> ELSE ps[CHOOSE i \in at : TRUE][2].props

\* the value of the last entry of the section that declares name
LastDeclared(field, name) ==
    LET es == DeclaredEntries(field)
        last == CHOOSE i \in 1..Len(es) :
                    /\ es[i][1] = name
                    /\ \A j \in (i + 1)..Len(es) : es[j][1] # name
    IN es[last][2]

DeclaredInBoth == Range(DeclaredDeps) \cap Range(DeclaredDev)

PlacesOf(props, name) == {i \in 1..Len(props) : props[i][1] = name}

\* the claim as made
C12_RuntimeValueWins ==
    Returned /\ IsManifest =>
        \A n \in DeclaredInBoth :
            /\ Cardinality(PlacesOf(MergedDeps, n)) = 1
            /\ \A i \in PlacesOf(MergedDeps, n) :
                   MergedDeps[i][2] = LastDeclared("dependencies", n)

\* the claim as amended
C12_DevValueWins ==
    Returned /\ IsManifest =>
        \A n \in DeclaredInBoth :
            /\ Cardinality(PlacesOf(MergedDeps, n)) = 1
            /\ \A i \in PlacesOf(MergedDeps, n) :
                   /\ MergedDeps[i][2] = LastDeclared("devDependencies", n)
                   /\ FirstSeen(DeclaredNames, 1)[i] = n

\* a name declared in both sections, after another name, with two versions
C12_Witness ==
    /\ Returned
    /\ IsManifest
    /\ \E n \in DeclaredInBoth :
          /\ LastDeclared("dependencies", n) # LastDeclared("devDependencies", n)
          /\ Len(DeclaredDeps) >= 2
          /\ DeclaredDeps[1] # n

(***************************************************************************)
(* C13.  A manifest that parses and has no match against a failed parse.   *)
(* The claim: the two reports are identical, also when the manifest        *)
(* declares dependencies.  The code: the report of a parsed manifest with  *)
(* an empty heavyPackages is the zero report except for totalDependencies, *)
(* which counts the declared keys.                                         *)
(***************************************************************************)
ParsedManifest == ~TryBlock(packageJson).threw

\* the claim as made
C13_SameAsFailure ==
    Returned /\ IsManifest /\ ParsedManifest
             /\ DeclaredMatches = {} /\ Report.heavyPackages = <<>>
        => Report = AnalyzeDependencies(<<LBrace, BadTok, BadTok>>)

\* the claim as amended
C13_ZeroButCount ==
    Returned /\ ParsedManifest /\ Report.heavyPackages = <<>> =>
        /\ Report.totalWeight = Num(0)
        /\ DOMAIN Report.categories = {}
        /\ Report.riskLevel = "LOW"
        /\ AllFlagsFalse(Report.analysis)
        /\ Report.analysis.totalDependencies = Len(MergedDeps)
        /\ IsManifest =>
               Report.analysis.totalDependencies = Cardinality(Range(DeclaredNames))
        /\ IsZeroReport(Report) <=> Len(MergedDeps) = 0

\* a parsed manifest that declares a dependency and lists no heavy package
C13_Witness ==
    /\ Returned
    /\ IsManifest
    /\ ParsedManifest
    /\ Report.heavyPackages = <<>>
    /\ "left-pad" \in Range(DeclaredNames)
    /\ Report.analysis.totalDependencies >= 1

(***************************************************************************)
(* What the properties of projectHeavinessAnalyzer read off a state.       *)
(***************************************************************************)
CallsTo(tool) == SelectSeq(calls, LAMBDA c : c.tool = tool)
Issued(tool) == Len(CallsTo(tool)) > 0

FinishedRun == phaPc = "returned"
ManifestListed == phaPc # "start" /\ HasPackageJson(paths)
ContentFetched == fileRes # Undefined
ContentOk == ContentFetched /\ fileRes.ok
ManifestAvailable == ManifestListed /\ ContentOk

\* the scorer, once called, takes its try block to the end or its catch block
ScorerCanStep ==
    /\ pc = "called"
    /\ TryBlock(packageJson).threw \/ ~TryBlock(packageJson).threw
\* the run has a next step: an awaited call to issue, or the scorer to run
RunCanStep ==
    \/ ENABLED (GetFilePaths \/ GetFileContent \/ InvokeScorer
                   \/ ScorerReturns \/ GetRepoSize \/ GenerateReport)
    \/ ScorerCanStep

(***************************************************************************)
(* C14.  A missing or unavailable manifest never aborts a run of           *)
(* projectHeavinessAnalyzer.  The scorer is invoked only when              *)
(* "package.json" is listed and its content came with ok = true.  A run    *)
(* whose listing lacks "package.json", or whose content came with          *)
(* ok = false, does not invoke the scorer, fills the dependency section of *)
(* the prompt with the zero report (the value the scorer returns when it   *)
(* fails soft), fetches the repository size and calls the text generation  *)
(* exactly once; and a run that has not returned always has a next step.   *)
(***************************************************************************)
C14_MissingManifestRuns ==
    /\ Issued("analyzeDependencies") => ManifestAvailable
    /\ ~FinishedRun => RunCanStep
    /\ FinishedRun =>
          /\ Issued("analyzeDependencies") <=> ManifestAvailable
          /\ Len(CallsTo("getRepoSize")) = 1
          /\ Len(CallsTo("generateText")) = 1
          /\ output # Undefined
          /\ ~ManifestAvailable =>
                /\ reportPrompt.dependencyAnalysis = DefaultReport
                /\ reportPrompt.dependencyAnalysis
                      = AnalyzeDependencies(<<LBrace, BadTok>>)
                /\ IsZeroReport(reportPrompt.dependencyAnalysis)
                /\ reportPrompt.packageJson.text = <<>>

\* a run returned whose listing names package.json and whose content, a
\* manifest declaring tensorflow, came with ok = false
C14_Witness ==
    /\ FinishedRun
    /\ ManifestListed
    /\ ContentFetched
    /\ ~fileRes.ok
    /\ declared.family = "manifest"
    /\ \E i \in 1..Len(DeclaredNames) : DeclaredNames[i] = "tensorflow"
    /\ AnalyzeDependencies(fileRes.content).riskLevel = "MEDIUM"
    /\ ~Issued("analyzeDependencies")
    /\ Len(CallsTo("generateText")) = 1

(***************************************************************************)
(* C15.  The three fetches of projectHeavinessAnalyzer (file list,         *)
(* content of package.json, repository size).                              *)
(***************************************************************************)
\* the position in calls of the first call to the tool, 0 when there is none
FirstCallTo(tool) ==
    LET at == {i \in 1..Len(calls) : calls[i].tool = tool}
    IN IF at = {} THEN 0 ELSE CHOOSE i \in at : \A j \in at : i <= j

\* the arguments of the three fetches are made of the context of the run
\* and of literals, of no result of another fetch
FetchArguments ==
    \A i \in 1..Len(calls) :
       /\ calls[i].tool = "getFilePaths" =>
             calls[i].context = [owner |-> context.owner, repo |-> context.repo,
                                 tree_sha |-> "main"]
       /\ calls[i].tool = "getFileContent" =>
             calls[i].context = [owner |-> context.owner, repo |-> context.repo,
                                 path |-> "package.json"]
       /\ calls[i].tool = "getRepoSize" =>
             calls[i].context = [owner |-> context.owner, repo |-> context.repo]

\* C15 as the specification states it: no fetch depends on the result of
\* another.  The content of package.json is fetched in the runs whose file
\* list is <<"package.json">>; were that fetch independent of the file
\* list, every run would issue it, whatever the list holds.
C15_FetchesIndependent ==
    /\ FetchArguments
    /\ FinishedRun =>
          /\ Len(CallsTo("getFilePaths")) = 1
          /\ Len(CallsTo("getFileContent")) = 1
          /\ Len(CallsTo("getRepoSize")) = 1

\* C15, amended: the arguments of the three fetches depend on no result of
\* another fetch, and the file list and the repository size are fetched
\* once in every run, whatever the other fetches answered; but the content
\* of package.json is fetched only after the file list has been received
\* and only when that list holds the path "package.json": whether the
\* content fetch is issued depends on the result of the file-list fetch.
C15_ContentFetchFollowsListing ==
    /\ FetchArguments
    /\ Len(CallsTo("getFileContent")) <= 1
    /\ Issued("getFileContent") =>
          /\ ManifestListed
          /\ 0 < FirstCallTo("getFilePaths")
          /\ FirstCallTo("getFilePaths") < FirstCallTo("getFileContent")
    /\ phaPc \notin {"start", "listed"} =>
          (Issued("getFileContent") <=> HasPackageJson(paths))
    /\ FinishedRun =>
          /\ Len(CallsTo("getFilePaths")) = 1
          /\ Len(CallsTo("getRepoSize")) = 1
          /\ reportPrompt.totalFiles = Len(paths)
          /\ reportPrompt.repoSizeMB = repoSize.repoSizeMB

\* a run returned whose file list holds paths, none of them equal to
\* "package.json" (one is lib/package.json), and that fetched no content
C15_Witness ==
    /\ FinishedRun
    /\ \E i \in 1..Len(paths) : paths[i] = "lib/package.json"
    /\ ~HasPackageJson(paths)
    /\ ~Issued("getFileContent")
    /\ Len(CallsTo("getFilePaths")) = 1
    /\ Len(CallsTo("getRepoSize")) = 1

====
